---------------------------- MODULE Spec2Model ----------------------------
(***************************************************************************)
(* SecureStudio: the track store of VideoWorker (src/core/video_thread.py) *)
(* and the per-frame cycle of VideoWorker.run that updates, predicts,      *)
(* prunes and renders it.                                                  *)
(*                                                                         *)
(* Numbers.  The program computes boxes and velocities in floating point.  *)
(* The model computes them as exact rationals <<num, den>> (den > 0, in    *)
(* lowest terms); on the inputs used here (integer pixel boxes, smoothing  *)
(* factors 0 and 1/2) these are the values the program computes up to      *)
(* floating-point rounding.  Time is counted in ticks of 1/TicksPerSecond  *)
(* second.                                                                 *)
(***************************************************************************)
EXTENDS Integers, Sequences, FiniteSets, TLC

VARIABLES
    active_blurs,       \* self.active_blurs: track key -> [box, velocity, label, last_seen]
    frame_counter,      \* self.frame_counter
    auto_blur_enabled,  \* self.auto_blur_enabled
    smooth_factor,      \* self.smooth_factor (a rational)
    current_time,       \* run: current_time of the latest cycle, in ticks
    results,            \* run: the detections the latest detector call returned
    current_frame_ids,  \* run: current_frame_ids of the latest auto-blur cycle
    drawn,              \* run: track key -> region handed to apply_blur_effect and
                        \*   outlined on display_img in the latest cycle
    blurred,            \* run: track key -> region of img that apply_blur_effect overwrote
    last_cycle,         \* which path the latest cycle took
    retired_keys,       \* history: every key the prune step has deleted so far
    prev_blurs,         \* history: active_blurs as the latest completed auto-blur cycle found it
    cycle_smooth,       \* history: self.smooth_factor as each detection of the latest
                        \*   detection-bearing cycle read it (one entry per position)
    running,            \* self.running
    show_output,        \* self.show_output
    worker,             \* where the thread of run is: "looping" (at "while self.running"),
                        \*   "in_pass" (in the loop body), "finished" (run has returned)
                        \*   or "killed" (the process ended while it was in run)
    twin_blurs,         \* self.active_blurs of a second worker that is given the same
                        \*   frames, detector results, timestamps and settings
    model,              \* self.model: "None" or the weights file that was loaded
    model_type,         \* self.model_type
    use_custom_model,   \* self.use_custom_model
    model_size,         \* self.model_size
    model_at_call,      \* run: self.model as line 207 of the latest pass that
                        \*   reached it found it
    cam,                \* run: the virtual camera: "none" (GUI only), "open" or "closed"
    cap,                \* run: the capture device: "open" or "released"
    sent,               \* run: what the latest pass handed to cam.send
    skips_since_call    \* history: the skip passes since the latest pass that
                        \*   reached the detector call

(* What the cycles of the loop leave alone *)
loop_vars == <<running, show_output, cam, cap>>

(* The settings that only update_settings writes *)
settings_vars == <<use_custom_model, model_size>>

(* The detector and what the passes record about it *)
model_vars == <<model, model_type, model_at_call>>

(* What the passes record about the output and the cadence *)
output_vars == <<sent, skips_since_call>>

vars == <<active_blurs, frame_counter, auto_blur_enabled, smooth_factor,
          current_time, results, current_frame_ids, drawn, blurred, last_cycle,
          retired_keys, prev_blurs, cycle_smooth, running, show_output, worker,
          twin_blurs, model, model_type, use_custom_model, model_size,
          model_at_call, cam, cap, sent, skips_since_call>>

---------------------------------------------------------------------------
(* Bounds of the model *)

MaxTime == 6            \* cycles start only while current_time < MaxTime
MaxDt == 2              \* a cycle is 1..MaxDt ticks after the previous one
TicksPerSecond == 4     \* resolution of the clock

---------------------------------------------------------------------------
(* Rational arithmetic (the program's float arithmetic) *)

Abs(n) == IF n < 0 THEN -n ELSE n

RECURSIVE GCD(_, _)
GCD(a, b) == IF b = 0 THEN a ELSE GCD(b, a % b)

Norm(n, d) ==
    LET g == GCD(Abs(n), d)
    IN  IF n = 0 THEN <<0, 1>> ELSE <<n \div g, d \div g>>

R(n) == <<n, 1>>
RNeg(a) == <<-a[1], a[2]>>
RAdd(a, b) ==
    LET g == GCD(a[2], b[2])
    IN  Norm(a[1] * (b[2] \div g) + b[1] * (a[2] \div g), a[2] * (b[2] \div g))
RSub(a, b) == RAdd(a, RNeg(b))
RMul(a, b) ==
    LET g == GCD(Abs(a[1]), b[2])
        h == GCD(Abs(b[1]), a[2])
    IN  IF a[1] = 0 \/ b[1] = 0
        THEN <<0, 1>>
        ELSE <<(a[1] \div g) * (b[1] \div h), (a[2] \div h) * (b[2] \div g)>>
RDiv(a, b) == RMul(a, <<b[2], b[1]>>)             \* only for b > 0
RAbs(a) == <<Abs(a[1]), a[2]>>
RLt(a, b) == RSub(a, b)[1] < 0
RLe(a, b) == RSub(a, b)[1] <= 0
RMax(a, b) == IF RLt(a, b) THEN b ELSE a

(* A box or a velocity: 4 rationals *)
Box(x1, y1, x2, y2) == <<R(x1), R(y1), R(x2), R(y2)>>
Zero4 == <<R(0), R(0), R(0), R(0)>>
Vec4Add(a, b) == [i \in 1..4 |-> RAdd(a[i], b[i])]
Vec4Sub(a, b) == [i \in 1..4 |-> RSub(a[i], b[i])]

---------------------------------------------------------------------------
(* Program constants *)

NoTrackId == -1                 \* track_id when the detector gave no ids
TempIdBase == -1000             \* temp_id = -1000 - i
TempIdLimit == -900             \* tid < -900: a temporary id
DetectionInterval == 2          \* self.detection_interval
PersistenceDuration == <<1, 2>> \* self.persistence_duration = 0.5 seconds
FastMotionThreshold == 20       \* speed > 20
FastMotionSmoothDelta == <<3, 10>>
MinSmoothFactor == <<1, 10>>
SizeStabilityThreshold == <<1, 20>>
VelocitySmooth == <<1, 2>>

PaddingRatio == <<15, 100>>
FrameWidth == 1920              \* settings "obs_width"
FrameHeight == 1080             \* settings "obs_height"

---------------------------------------------------------------------------
(* The motion model: update of a matched track, lines 258-302 *)

(* speed = sum(abs(v) for v in new_velocity) / 4 *)
Speed(v) ==
    RDiv(RAdd(RAdd(RAbs(v[1]), RAbs(v[2])), RAdd(RAbs(v[3]), RAbs(v[4]))), R(4))

(* Variant: no lower limit for the reduced factor *)
AdaptiveSmoothNoFloor(sf, speed) ==
    IF RLt(R(FastMotionThreshold), speed)
    THEN RSub(sf, FastMotionSmoothDelta)
    ELSE sf

(* adaptive_smooth *)
AdaptiveSmooth(sf, speed) ==
    IF RLt(R(FastMotionThreshold), speed)
    THEN RMax(MinSmoothFactor, RSub(sf, FastMotionSmoothDelta))
    ELSE sf

(* Variant: the weights are exchanged *)
BlendExchanged(o, n, a) == RAdd(RMul(n, a), RMul(o, RSub(R(1), a)))

(* val = o * adaptive_smooth + n * (1.0 - adaptive_smooth) *)
Blend(o, n, a) == RAdd(RMul(o, a), RMul(n, RSub(R(1), a)))

SmoothBox(old_box, new_box, a) ==
    [i \in 1..4 |-> Blend(old_box[i], new_box[i], a)]

(* Variant: the old size is restored from the smoothed low edge instead of
   around the smoothed centre *)
StabilizeAxisAnchored(s_box, old_box, lo, hi) ==
    LET old_w == RSub(old_box[hi], old_box[lo])
        new_w == RSub(s_box[hi], s_box[lo])
    IN  IF RLt(RDiv(RAbs(RSub(new_w, old_w)), RMax(old_w, R(1))),
               SizeStabilityThreshold)
        THEN [s_box EXCEPT ![hi] = RAdd(s_box[lo], old_w)]
        ELSE s_box

(* Box size stabilization on one axis: lo, hi are the indices of the axis'
   two coordinates (1, 3 for x and 2, 4 for y). *)
StabilizeAxis(s_box, old_box, lo, hi) ==
    LET old_w == RSub(old_box[hi], old_box[lo])
        new_w == RSub(s_box[hi], s_box[lo])
        center == RDiv(RAdd(s_box[lo], s_box[hi]), R(2))
        half == RDiv(old_w, R(2))
    IN  IF RLt(RDiv(RAbs(RSub(new_w, old_w)), RMax(old_w, R(1))),
               SizeStabilityThreshold)
        THEN [s_box EXCEPT ![lo] = RSub(center, half), ![hi] = RAdd(center, half)]
        ELSE s_box

Stabilize(s_box, old_box) ==
    StabilizeAxis(StabilizeAxis(s_box, old_box, 1, 3), old_box, 2, 4)

(* Variant: the raw velocity is stored unsmoothed *)
SmoothVelocityRawOnly(old_velocity, new_velocity) == new_velocity

(* s_velocity = [ov * 0.5 + nv * 0.5 ...] *)
SmoothVelocity(old_velocity, new_velocity) ==
    [i \in 1..4 |-> RAdd(RMul(old_velocity[i], VelocitySmooth),
                         RMul(new_velocity[i], VelocitySmooth))]

UpdateTrack(old_data, new_box, label, now, sf) ==
    LET old_box == old_data.box
        new_velocity == Vec4Sub(new_box, old_box)
        a == AdaptiveSmooth(sf, Speed(new_velocity))
    IN  [box |-> Stabilize(SmoothBox(old_box, new_box, a), old_box),
         velocity |-> SmoothVelocity(old_data.velocity, new_velocity),
         label |-> label,
         last_seen |-> now]

(* New track, lines 305-310 and 314-319 *)
NewTrack(new_box, label, now) ==
    [box |-> new_box, velocity |-> Zero4, label |-> label, last_seen |-> now]

---------------------------------------------------------------------------
(* The detection loop, lines 213-320 *)

Put(store, k, v) ==
    [x \in DOMAIN store \cup {k} |-> IF x = k THEN v ELSE store[x]]

(* Variant: temporary ids are counted down from -1 *)
TempIdFromMinusOne(i) == NoTrackId - i

(* Variant: the position is added instead of subtracted *)
TempIdUpward(i) == TempIdBase + i

(* temp_id = -1000 - i, i the detection's 0-based position in the batch *)
TempId(i) == TempIdBase - i

(* Variant: every detection without a track id gets the same temporary id *)
KeyOfSharedTemp(det, i) ==
    IF det.track_id # NoTrackId THEN det.track_id ELSE TempIdBase

(* The key the loop files detection det, at position i, under *)
KeyOf(det, i) == IF det.track_id # NoTrackId THEN det.track_id ELSE TempId(i)

(* Variant: a detection with a track id is applied to its track only if the
   two boxes overlap on the x axis, and is ignored otherwise *)
TrackedEntryIfOverlapping(store, det, now, sf) ==
    IF det.track_id \notin DOMAIN store
    THEN NewTrack(det.box, det.label, now)
    ELSE IF /\ RLt(store[det.track_id].box[1], det.box[3])
            /\ RLt(det.box[1], store[det.track_id].box[3])
         THEN UpdateTrack(store[det.track_id], det.box, det.label, now, sf)
         ELSE store[det.track_id]

(* The track the loop stores for a detection with a track id *)
TrackedEntry(store, det, now, sf) ==
    IF det.track_id \in DOMAIN store
    THEN UpdateTrack(store[det.track_id], det.box, det.label, now, sf)
    ELSE NewTrack(det.box, det.label, now)

(* Variant: a detection without a track id is smoothed into the track that
   holds its temporary id, like a detection with one *)
FallbackEntrySmoothed(store, det, i, now, sf) ==
    IF TempIdBase - i \in DOMAIN store
    THEN UpdateTrack(store[TempIdBase - i], det.box, det.label, now, sf)
    ELSE NewTrack(det.box, det.label, now)

(* The track the loop stores for a detection without a track id *)
FallbackEntry(store, det, i, now, sf) == NewTrack(det.box, det.label, now)

(* One iteration of "for i, box in enumerate(boxes)": st = [store, ids] *)
ProcessDetection(st, det, i, now, sf) ==
    IF ~det.should_blur
    THEN st
    ELSE [store |-> Put(st.store, KeyOf(det, i),
                        IF det.track_id # NoTrackId
                        THEN TrackedEntry(st.store, det, now, sf)
                        ELSE FallbackEntry(st.store, det, i, now, sf)),
          ids |-> st.ids \cup {KeyOf(det, i)}]

(* The loop over boxes[0 .. n-1]; reads[n] is the value of self.smooth_factor
   when the n-th detection is processed (line 268 reads the field anew for
   every detection) *)
RECURSIVE ProcessBatch(_, _, _, _, _)
ProcessBatch(st, dets, n, now, reads) ==
    IF n = 0
    THEN st
    ELSE ProcessDetection(ProcessBatch(st, dets, n - 1, now, reads),
                          dets[n], n - 1, now, reads[n])

(* Variant: the batch may also be walked from its last detection to its
   first *)
DetectOutcomesAnyOrder(store, batch, now, reads) ==
    LET n == Len(batch)
        back == [i \in 1..n |-> batch[n + 1 - i]]
    IN  { ProcessBatch([store |-> store, ids |-> {}], batch, n, now, reads),
          ProcessBatch([store |-> store, ids |-> {}], back, n, now, reads) }

(* What lines 213-320 can leave in [store, ids] for a store, a batch, a
   timestamp and the values read: the loops walk the batch in its order and
   use nothing else, so there is one outcome *)
DetectOutcomes(store, batch, now, reads) ==
    { ProcessBatch([store |-> store, ids |-> {}], batch, Len(batch), now, reads) }

---------------------------------------------------------------------------
(* Non-detection frame, lines 322-329 *)

IsPredicted(tid) == tid >= 0

(* Variant: the velocity is subtracted *)
PredictBackward(store) ==
    [tid \in DOMAIN store |->
        IF IsPredicted(tid)
        THEN [store[tid] EXCEPT !.box = Vec4Sub(store[tid].box, store[tid].velocity)]
        ELSE store[tid]]

Predict(store) ==
    [tid \in DOMAIN store |->
        IF IsPredicted(tid)
        THEN [store[tid] EXCEPT !.box = Vec4Add(store[tid].box, store[tid].velocity)]
        ELSE store[tid]]

---------------------------------------------------------------------------
(* Prune, lines 331-341 *)

(* Variant: ">=" for ">" *)
ExpiredAtBoundary(now, last_seen) ==
    RLe(PersistenceDuration, Norm(now - last_seen, TicksPerSecond))

(* current_time - data['last_seen'] > self.persistence_duration *)
Expired(now, last_seen) ==
    RLt(PersistenceDuration, Norm(now - last_seen, TicksPerSecond))

(* Variant: only ids below -1000 count as temporary *)
IsTemporaryBelowBase(tid) == tid < TempIdBase

IsTemporary(tid) == tid < TempIdLimit

(* Variant: the persistence test is left out *)
KeysToRemoveTempOnly(store, ids, now) ==
    {tid \in DOMAIN store : IsTemporary(tid) /\ tid \notin ids}

KeysToRemove(store, ids, now) ==
    {tid \in DOMAIN store :
        \/ Expired(now, store[tid].last_seen)
        \/ IsTemporary(tid) /\ tid \notin ids}

Prune(store, ids, now) ==
    [tid \in DOMAIN store \ KeysToRemove(store, ids, now) |-> store[tid]]

---------------------------------------------------------------------------
(* Apply blurs, lines 344-363 *)

(* int(x): truncation toward zero *)
Trunc(a) == IF a[1] < 0 THEN -((-a[1]) \div a[2]) ELSE a[1] \div a[2]

Min(a, b) == IF a < b THEN a ELSE b
Max(a, b) == IF a < b THEN b ELSE a

Region(box) ==
    LET x1 == Trunc(box[1])
        y1 == Trunc(box[2])
        x2 == Trunc(box[3])
        y2 == Trunc(box[4])
        pad_x == Trunc(RMul(R(x2 - x1), PaddingRatio))
        pad_y == Trunc(RMul(R(y2 - y1), PaddingRatio))
    IN  <<Max(0, x1 - pad_x), Max(0, y1 - pad_y),
          Min(FrameWidth, x2 + pad_x), Min(FrameHeight, y2 + pad_y)>>

Render(store) == [tid \in DOMAIN store |-> Region(store[tid].box)]

NoRegion == <<>>

(* Variant: the test for an empty region is left out *)
apply_blur_effectUnchecked(x1, y1, x2, y2) ==
    <<Max(0, x1), Max(0, y1), Min(FrameWidth, x2), Min(FrameHeight, y2)>>

(* apply_blur_effect, lines 101-135: the part of img that is overwritten;
   lines 107-108 return before anything is written when it is empty *)
apply_blur_effect(x1, y1, x2, y2) ==
    LET cy1 == Max(0, y1)
        cy2 == Min(FrameHeight, y2)
        cx1 == Max(0, x1)
        cx2 == Min(FrameWidth, x2)
    IN  IF cx2 <= cx1 \/ cy2 <= cy1
        THEN NoRegion
        ELSE <<cx1, cy1, cx2, cy2>>

(* The gaussian branch of apply_blur_effect, lines 127-135: the kernel size
   for a region of roi_h rows and roi_w columns,
   ksize = min(25, min(roi.shape[:2])) | 1 *)
GaussianKsize(roi_h, roi_w) ==
    LET ksize == Min(25, Min(roi_h, roi_w))
    IN  IF ksize % 2 = 1 THEN ksize ELSE ksize + 1

(* What the calls of line 360 overwrite, for the regions of one pass *)
Redact(regions) ==
    LET written(k) == apply_blur_effect(regions[k][1], regions[k][2],
                                        regions[k][3], regions[k][4])
    IN  [k \in {j \in DOMAIN regions : written(j) # NoRegion} |-> written(k)]

---------------------------------------------------------------------------
(* Inputs: what the detector returns for a frame (results[0].boxes, after
   the rescaling of lines 241-249): a sequence of detections, each with its
   box, its track id (NoTrackId for every detection when boxes.id is None),
   whether the class filter of lines 228-237 lets it through, and the label
   of lines 250-252. *)

Det(box, id, blur, label) ==
    [box |-> box, track_id |-> id, should_blur |-> blur, label |-> label]

BoxA == Box(100, 100, 200, 200)
BoxB == Box(110, 100, 210, 200)         \* overlaps BoxA, IoU 9/11
BoxFar == Box(400, 300, 500, 400)       \* disjoint from BoxA and BoxB
BoxNarrow == Box(148, 100, 152, 200)    \* inside BoxA, much narrower
BoxFlat == Box(300, 300, 300, 350)      \* degenerate: x2 = x1
BoxWide == Box(100, 100, 204, 200)      \* BoxA, 4% wider

Batches ==
    { <<>>,
      <<Det(BoxA, NoTrackId, TRUE, "BLURRED")>>,
      <<Det(BoxB, NoTrackId, TRUE, "BLURRED")>>,
      <<Det(BoxFar, NoTrackId, TRUE, "BLURRED"), Det(BoxA, NoTrackId, TRUE, "BLURRED")>>,
      <<Det(BoxFar, NoTrackId, FALSE, "BLURRED"), Det(BoxB, NoTrackId, TRUE, "BLURRED")>>,
      <<Det(BoxA, 1, TRUE, "id card")>>,
      <<Det(BoxB, 1, TRUE, "credit card")>>,
      <<Det(BoxNarrow, 1, TRUE, "id card")>>,
      <<Det(BoxFlat, 1, TRUE, "id card"), Det(BoxFar, 2, TRUE, "id card")>>,
      <<Det(BoxWide, 1, TRUE, "id card")>>,
      <<Det(BoxA, 1, TRUE, "id card"), Det(BoxB, 1, TRUE, "credit card")>> }

(* settings "smooth_factor": the slider gives 0.00 .. 0.90 *)
SmoothChoices == { <<0, 1>>, <<1, 2>> }

EmptyStore == [tid \in {} |-> 0]

(* settings "model_size": the dialog offers s, m and l; two of them here *)
ModelSizes == {"s", "m"}

---------------------------------------------------------------------------
(* The detector, lines 69-99 and 189-190 *)

(* f'world-{self.model_size}' and f"yolov8{self.model_size}-worldv2.pt" *)
WorldType(size) == IF size = "s" THEN "world-s" ELSE "world-m"
WorldFile(size) == IF size = "s" THEN "yolov8s-worldv2.pt" ELSE "yolov8m-worldv2.pt"

(* load_model, lines 69-99, from self.model = m and self.model_type = mt:
   the weights are loaded only when model_type is not the wanted one; in
   custom mode line 86 then calls set_classes on self.model, which raises
   AttributeError when that is None. *)
load_model(m, mt, custom, size) ==
    IF custom
    THEN LET load == mt # WorldType(size)
             loaded == IF load THEN WorldFile(size) ELSE m
         IN  [model |-> loaded,
              model_type |-> IF load THEN WorldType(size) ELSE mt,
              raised |-> loaded = "None"]
    ELSE LET load == mt # "standard"
         IN  [model |-> IF load THEN "yolov8n.pt" ELSE m,
              model_type |-> IF load THEN "standard" ELSE mt,
              raised |-> FALSE]

(* "if self.model is None: self.load_model()", lines 189-190 *)
ModelGate ==
    IF model = "None"
    THEN load_model(model, model_type, use_custom_model, model_size)
    ELSE [model |-> model, model_type |-> model_type, raised |-> FALSE]

---------------------------------------------------------------------------
(* Output to the virtual camera, lines 367-372 *)

(* No frame was handed to cam.send *)
NotSent == [emitted |-> FALSE, redacted |-> EmptyStore]

(* "if cam: cam.send(img)" with img overwritten over regions *)
Send(regions) ==
    IF cam = "open"
    THEN [emitted |-> TRUE, redacted |-> regions]
    ELSE NotSent

---------------------------------------------------------------------------
(* The values of self.smooth_factor that the n detections of one pass read.
   update_settings runs on the UI thread and run takes no snapshot of the
   field and no lock, so either every detection reads the current value, or
   update_settings stores another value while the loop is between detection
   k and detection k + 1 and the later detections read that one. *)
SmoothReads(sf, n) ==
    { [i \in 1..n |-> sf] } \cup
    { [i \in 1..n |-> IF i <= k THEN sf ELSE new] :
          k \in 1..(n - 1), new \in SmoothChoices \ {sf} }

(* The state after VideoWorker.__init__, MainWindow.__init__, which starts
   the thread, and the prologue of run (lines 137-171), which loads the
   model and opens the camera and the virtual camera (cams: whether that one
   could be opened); auto_blur, smooth_factor, the detection mode and the
   model size come from the saved settings. *)
InitWith(cams, customs, sizes) ==
    /\ active_blurs = EmptyStore
    /\ twin_blurs = EmptyStore
    /\ frame_counter = 0
    /\ auto_blur_enabled \in BOOLEAN
    /\ smooth_factor \in SmoothChoices
    /\ current_time = 0
    /\ results = <<>>
    /\ current_frame_ids = {}
    /\ drawn = EmptyStore
    /\ blurred = EmptyStore
    /\ last_cycle = "none"
    /\ retired_keys = {}
    /\ prev_blurs = EmptyStore
    /\ cycle_smooth = <<>>
    /\ running = TRUE
    /\ show_output = FALSE
    /\ worker = "looping"
    /\ use_custom_model \in customs
    /\ model_size \in sizes
    /\ model = load_model("None", "None", use_custom_model, model_size).model
    /\ model_type = load_model("None", "None", use_custom_model, model_size).model_type
    /\ model_at_call = "no call"
    /\ cam \in cams
    /\ cap = "open"
    /\ sent = NotSent
    /\ skips_since_call = 0

(* The saved settings of a user who keeps the standard detector, with the
   virtual camera available *)
Init == InitWith({"open"}, {FALSE}, {"s"})

(* run_detection = (self.frame_counter % self.detection_interval == 0) *)
RunDetection(counter) == counter % DetectionInterval = 0

(* The thread is past "while self.running" for its next pass: it has just
   evaluated the condition (BeginPass took that step), or it is at the loop
   head with the flag set and the pass follows in the same step *)
LoopHead == worker = "in_pass" \/ (worker = "looping" /\ running)

(* "while self.running" finds the flag set and the thread enters the loop
   body, line 174; the handlers of the window can run before the body has
   done anything *)
BeginPass ==
    /\ worker = "looping"
    /\ running
    /\ current_time < MaxTime
    /\ worker' = "in_pass"
    /\ UNCHANGED <<active_blurs, twin_blurs, frame_counter, auto_blur_enabled,
                   smooth_factor, current_time, results, current_frame_ids,
                   drawn, blurred, last_cycle, retired_keys, prev_blurs,
                   cycle_smooth>>
    /\ UNCHANGED <<loop_vars, settings_vars, model_vars, output_vars>>

(* Lines 189-190 succeeded: self.model and self.model_type are what the gate
   left *)
GatePassed ==
    /\ ~ModelGate.raised
    /\ model' = ModelGate.model
    /\ model_type' = ModelGate.model_type

(* One pass of the loop body of run, lines 176-380, with auto-blur on and
   the detector called, returning one of batches: update from the batch,
   prune, render, send. *)
DetectCycleOn(batches) ==
    /\ LoopHead
    /\ current_time < MaxTime
    /\ auto_blur_enabled
    /\ GatePassed
    /\ ModelGate.model # "None"
    /\ RunDetection(frame_counter + 1)
    /\ \E dt \in 1..MaxDt, batch \in batches :
       \E reads \in SmoothReads(smooth_factor, Len(batch)) :
       \E st \in DetectOutcomes(active_blurs, batch, current_time + dt, reads) :
       \E twin \in DetectOutcomes(twin_blurs, batch, current_time + dt, reads) :
         LET now == current_time + dt
             kept == Prune(st.store, st.ids, now)
         IN  /\ current_time' = now
             /\ twin_blurs' = Prune(twin.store, twin.ids, now)
             /\ frame_counter' = frame_counter + 1
             /\ results' = batch
             /\ current_frame_ids' = st.ids
             /\ active_blurs' = kept
             /\ drawn' = Render(kept)
             /\ blurred' = Redact(Render(kept))
             /\ sent' = Send(Redact(Render(kept)))
             /\ retired_keys' = retired_keys \cup KeysToRemove(st.store, st.ids, now)
             /\ cycle_smooth' = reads
             /\ smooth_factor' = IF Len(batch) = 0
                                 THEN smooth_factor
                                 ELSE reads[Len(batch)]
    /\ last_cycle' = "detect"
    /\ prev_blurs' = active_blurs
    /\ model_at_call' = ModelGate.model
    /\ skips_since_call' = 0
    /\ worker' = "looping"
    /\ UNCHANGED auto_blur_enabled
    /\ UNCHANGED <<loop_vars, settings_vars>>

DetectCycle == DetectCycleOn(Batches)

(* Variant: a failing detector call counts as an empty batch, and the pass
   goes on to prune and render *)
DetectAbortAsEmptyBatch ==
    /\ LoopHead
    /\ current_time < MaxTime
    /\ auto_blur_enabled
    /\ GatePassed
    /\ ModelGate.model # "None"
    /\ RunDetection(frame_counter + 1)
    /\ \E dt \in 1..MaxDt :
         LET now == current_time + dt
             kept == Prune(active_blurs, {}, now)
         IN  /\ current_time' = now
             /\ active_blurs' = kept
             /\ twin_blurs' = Prune(twin_blurs, {}, now)
             /\ drawn' = Render(kept)
             /\ blurred' = Redact(Render(kept))
             /\ sent' = Send(Redact(Render(kept)))
             /\ retired_keys' = retired_keys \cup KeysToRemove(active_blurs, {}, now)
    /\ frame_counter' = frame_counter + 1
    /\ last_cycle' = "abort"
    /\ model_at_call' = ModelGate.model
    /\ skips_since_call' = 0
    /\ worker' = "looping"
    /\ UNCHANGED <<auto_blur_enabled, smooth_factor, results,
                   current_frame_ids, prev_blurs, cycle_smooth>>
    /\ UNCHANGED <<loop_vars, settings_vars>>

(* Variant: an exception ends the thread *)
DetectAbortFatal ==
    /\ LoopHead
    /\ current_time < MaxTime
    /\ auto_blur_enabled
    /\ GatePassed
    /\ ModelGate.model # "None"
    /\ RunDetection(frame_counter + 1)
    /\ \E dt \in 1..MaxDt : current_time' = current_time + dt
    /\ frame_counter' = frame_counter + 1
    /\ drawn' = EmptyStore
    /\ blurred' = EmptyStore
    /\ sent' = NotSent
    /\ last_cycle' = "abort"
    /\ model_at_call' = ModelGate.model
    /\ skips_since_call' = 0
    /\ worker' = "finished"
    /\ UNCHANGED <<active_blurs, twin_blurs, auto_blur_enabled, smooth_factor, results,
                   current_frame_ids, retired_keys, prev_blurs, cycle_smooth>>
    /\ UNCHANGED <<loop_vars, settings_vars>>

(* Variant: the pass that the detector call ends is not counted *)
DetectAbortUncounted ==
    /\ LoopHead
    /\ current_time < MaxTime
    /\ auto_blur_enabled
    /\ GatePassed
    /\ ModelGate.model # "None"
    /\ RunDetection(frame_counter + 1)
    /\ \E dt \in 1..MaxDt : current_time' = current_time + dt
    /\ drawn' = EmptyStore
    /\ blurred' = EmptyStore
    /\ sent' = NotSent
    /\ last_cycle' = "abort"
    /\ model_at_call' = ModelGate.model
    /\ skips_since_call' = 0
    /\ worker' = "looping"
    /\ UNCHANGED <<active_blurs, twin_blurs, frame_counter, auto_blur_enabled,
                   smooth_factor, results, current_frame_ids, retired_keys,
                   prev_blurs, cycle_smooth>>
    /\ UNCHANGED <<loop_vars, settings_vars>>

(* Variant: the frame of the abandoned pass is sent as it was read *)
DetectAbortSendsFrame ==
    /\ LoopHead
    /\ current_time < MaxTime
    /\ auto_blur_enabled
    /\ GatePassed
    /\ ModelGate.model # "None"
    /\ RunDetection(frame_counter + 1)
    /\ \E dt \in 1..MaxDt : current_time' = current_time + dt
    /\ frame_counter' = frame_counter + 1
    /\ drawn' = EmptyStore
    /\ blurred' = EmptyStore
    /\ sent' = Send(EmptyStore)
    /\ last_cycle' = "abort"
    /\ model_at_call' = ModelGate.model
    /\ skips_since_call' = 0
    /\ worker' = "looping"
    /\ UNCHANGED <<active_blurs, twin_blurs, auto_blur_enabled, smooth_factor, results,
                   current_frame_ids, retired_keys, prev_blurs, cycle_smooth>>
    /\ UNCHANGED <<loop_vars, settings_vars>>

(* The same pass when self.model.track raises: the except clause of lines
   382-385 ends the pass after frame_counter was incremented; nothing is
   pruned, rendered or sent, and the loop goes on. *)
DetectAbort ==
    /\ LoopHead
    /\ current_time < MaxTime
    /\ auto_blur_enabled
    /\ GatePassed
    /\ ModelGate.model # "None"
    /\ RunDetection(frame_counter + 1)
    /\ \E dt \in 1..MaxDt : current_time' = current_time + dt
    /\ frame_counter' = frame_counter + 1
    /\ drawn' = EmptyStore
    /\ blurred' = EmptyStore
    /\ sent' = NotSent
    /\ last_cycle' = "abort"
    /\ model_at_call' = ModelGate.model
    /\ skips_since_call' = 0
    /\ worker' = "looping"
    /\ UNCHANGED <<active_blurs, twin_blurs, auto_blur_enabled, smooth_factor, results,
                   current_frame_ids, retired_keys, prev_blurs, cycle_smooth>>
    /\ UNCHANGED <<loop_vars, settings_vars>>

(* The same pass when load_model has left self.model None (lines 189-190 and
   94-99): line 207 dereferences None, the AttributeError goes to the except
   clause of lines 382-385. *)
TrackOnNone ==
    /\ LoopHead
    /\ current_time < MaxTime
    /\ auto_blur_enabled
    /\ GatePassed
    /\ ModelGate.model = "None"
    /\ RunDetection(frame_counter + 1)
    /\ \E dt \in 1..MaxDt : current_time' = current_time + dt
    /\ frame_counter' = frame_counter + 1
    /\ drawn' = EmptyStore
    /\ blurred' = EmptyStore
    /\ sent' = NotSent
    /\ last_cycle' = "abort"
    /\ model_at_call' = "None"
    /\ skips_since_call' = 0
    /\ worker' = "looping"
    /\ UNCHANGED <<active_blurs, twin_blurs, auto_blur_enabled, smooth_factor, results,
                   current_frame_ids, retired_keys, prev_blurs, cycle_smooth>>
    /\ UNCHANGED <<loop_vars, settings_vars>>

(* The same pass when update_settings runs on the UI thread after the gate
   of lines 189-190 and before line 207, with another mode or size: it
   stores the new settings and sets self.model to None (lines 47-62), and
   line 207 dereferences None. *)
TrackRaced ==
    /\ LoopHead
    /\ current_time < MaxTime
    /\ auto_blur_enabled
    /\ ~ModelGate.raised
    /\ ModelGate.model # "None"
    /\ RunDetection(frame_counter + 1)
    /\ \E dt \in 1..MaxDt : current_time' = current_time + dt
    /\ \E sf \in SmoothChoices, custom \in BOOLEAN, size \in ModelSizes :
          /\ custom # use_custom_model \/ size # model_size
          /\ smooth_factor' = sf
          /\ use_custom_model' = custom
          /\ model_size' = size
    /\ model' = "None"
    /\ model_type' = ModelGate.model_type
    /\ frame_counter' = frame_counter + 1
    /\ drawn' = EmptyStore
    /\ blurred' = EmptyStore
    /\ sent' = NotSent
    /\ last_cycle' = "abort"
    /\ model_at_call' = "None"
    /\ skips_since_call' = 0
    /\ worker' = "looping"
    /\ UNCHANGED <<active_blurs, twin_blurs, auto_blur_enabled, results,
                   current_frame_ids, retired_keys, prev_blurs, cycle_smooth>>
    /\ UNCHANGED loop_vars

(* A pass with auto-blur on in which load_model raises (line 86 calls
   set_classes on None): the except clause ends the pass before
   frame_counter is incremented. *)
LoadAbort ==
    /\ LoopHead
    /\ current_time < MaxTime
    /\ auto_blur_enabled
    /\ ModelGate.raised
    /\ model' = ModelGate.model
    /\ model_type' = ModelGate.model_type
    /\ \E dt \in 1..MaxDt : current_time' = current_time + dt
    /\ drawn' = EmptyStore
    /\ blurred' = EmptyStore
    /\ sent' = NotSent
    /\ last_cycle' = "load_abort"
    /\ worker' = "looping"
    /\ UNCHANGED <<active_blurs, twin_blurs, frame_counter, auto_blur_enabled,
                   smooth_factor, results, current_frame_ids, retired_keys,
                   prev_blurs, cycle_smooth, model_at_call, skips_since_call>>
    /\ UNCHANGED <<loop_vars, settings_vars>>

(* Variant: a skip pass matches no track *)
SkipCycleMatchesNone ==
    /\ LoopHead
    /\ current_time < MaxTime
    /\ auto_blur_enabled
    /\ GatePassed
    /\ ~RunDetection(frame_counter + 1)
    /\ \E dt \in 1..MaxDt :
         LET now == current_time + dt
             kept == Prune(Predict(active_blurs), {}, now)
         IN  /\ current_time' = now
             /\ active_blurs' = kept
             /\ twin_blurs' = Prune(Predict(twin_blurs), {}, now)
             /\ drawn' = Render(kept)
             /\ blurred' = Redact(Render(kept))
             /\ sent' = Send(Redact(Render(kept)))
             /\ retired_keys' = retired_keys \cup
                    KeysToRemove(Predict(active_blurs), {}, now)
    /\ frame_counter' = frame_counter + 1
    /\ current_frame_ids' = {}
    /\ last_cycle' = "skip"
    /\ prev_blurs' = active_blurs
    /\ skips_since_call' = skips_since_call + 1
    /\ worker' = "looping"
    /\ UNCHANGED <<auto_blur_enabled, smooth_factor, results, cycle_smooth,
                   model_at_call>>
    /\ UNCHANGED <<loop_vars, settings_vars>>

(* One pass with auto-blur on and no detector call: predict, prune, render,
   send. *)
SkipCycle ==
    /\ LoopHead
    /\ current_time < MaxTime
    /\ auto_blur_enabled
    /\ GatePassed
    /\ ~RunDetection(frame_counter + 1)
    /\ \E dt \in 1..MaxDt :
         LET now == current_time + dt
             kept == Prune(Predict(active_blurs), DOMAIN active_blurs, now)
         IN  /\ current_time' = now
             /\ active_blurs' = kept
             /\ twin_blurs' = Prune(Predict(twin_blurs), DOMAIN twin_blurs, now)
             /\ drawn' = Render(kept)
             /\ blurred' = Redact(Render(kept))
             /\ sent' = Send(Redact(Render(kept)))
             /\ retired_keys' = retired_keys \cup
                    KeysToRemove(Predict(active_blurs), DOMAIN active_blurs, now)
    /\ frame_counter' = frame_counter + 1
    /\ current_frame_ids' = DOMAIN active_blurs
    /\ last_cycle' = "skip"
    /\ prev_blurs' = active_blurs
    /\ skips_since_call' = skips_since_call + 1
    /\ worker' = "looping"
    /\ UNCHANGED <<auto_blur_enabled, smooth_factor, results, cycle_smooth,
                   model_at_call>>
    /\ UNCHANGED <<loop_vars, settings_vars>>

(* The same pass when rendering, sending or showing the frame raises (lines
   343-380): the store has been predicted and pruned; the render loop or
   cam.send raised and nothing was sent, or the redacted frame was sent and
   the conversion for the window raised; the except clause ends the pass,
   and the loop goes on. *)
OutputAbort ==
    /\ LoopHead
    /\ current_time < MaxTime
    /\ auto_blur_enabled
    /\ GatePassed
    /\ ~RunDetection(frame_counter + 1)
    /\ \E dt \in 1..MaxDt :
         LET now == current_time + dt
             kept == Prune(Predict(active_blurs), DOMAIN active_blurs, now)
         IN  /\ current_time' = now
             /\ active_blurs' = kept
             /\ twin_blurs' = Prune(Predict(twin_blurs), DOMAIN twin_blurs, now)
             /\ retired_keys' = retired_keys \cup
                    KeysToRemove(Predict(active_blurs), DOMAIN active_blurs, now)
             /\ sent' \in {NotSent, Send(Redact(Render(kept)))}
    /\ drawn' = EmptyStore
    /\ blurred' = EmptyStore
    /\ frame_counter' = frame_counter + 1
    /\ current_frame_ids' = DOMAIN active_blurs
    /\ last_cycle' = "late_abort"
    /\ skips_since_call' = skips_since_call + 1
    /\ worker' = "looping"
    /\ UNCHANGED <<auto_blur_enabled, smooth_factor, results, prev_blurs,
                   cycle_smooth, model_at_call>>
    /\ UNCHANGED <<loop_vars, settings_vars>>

(* One pass with auto-blur off: the frame goes out as it is. *)
PlainCycle ==
    /\ LoopHead
    /\ current_time < MaxTime
    /\ ~auto_blur_enabled
    /\ \E dt \in 1..MaxDt : current_time' = current_time + dt
    /\ drawn' = EmptyStore
    /\ blurred' = EmptyStore
    /\ sent' = Send(EmptyStore)
    /\ last_cycle' = "plain"
    /\ worker' = "looping"
    /\ UNCHANGED <<active_blurs, twin_blurs, frame_counter, auto_blur_enabled, smooth_factor,
                   results, current_frame_ids, retired_keys, prev_blurs, cycle_smooth,
                   skips_since_call>>
    /\ UNCHANGED <<loop_vars, settings_vars, model_vars>>

(* Lines 387-393: cam.close() if there is a virtual camera, cap.release() *)
Cleanup ==
    /\ cam' = IF cam = "open" THEN "closed" ELSE cam
    /\ cap' = "released"

(* cap.read() returns ret = False: lines 177-180 leave the loop *)
ReadFailure ==
    /\ LoopHead
    /\ worker' = "finished"
    /\ Cleanup
    /\ UNCHANGED <<active_blurs, twin_blurs, frame_counter, auto_blur_enabled, smooth_factor,
                   current_time, results, current_frame_ids, drawn, blurred, last_cycle,
                   retired_keys, prev_blurs, cycle_smooth, running, show_output>>
    /\ UNCHANGED <<settings_vars, model_vars, output_vars>>

(* "while self.running" finds the flag cleared: lines 387-393 *)
LoopExit ==
    /\ worker = "looping"
    /\ ~running
    /\ worker' = "finished"
    /\ Cleanup
    /\ UNCHANGED <<active_blurs, twin_blurs, frame_counter, auto_blur_enabled, smooth_factor,
                   current_time, results, current_frame_ids, drawn, blurred, last_cycle,
                   retired_keys, prev_blurs, cycle_smooth, running, show_output>>
    /\ UNCHANGED <<settings_vars, model_vars, output_vars>>

(* Variant: switching auto-blur off also empties the track store *)
toggle_blurClearsStore(state) ==
    /\ auto_blur_enabled' = (state = 2)
    /\ active_blurs' = IF state = 2 THEN active_blurs ELSE EmptyStore
    /\ twin_blurs' = IF state = 2 THEN twin_blurs ELSE EmptyStore
    /\ UNCHANGED <<frame_counter, smooth_factor, current_time,
                   results, current_frame_ids, drawn, blurred, last_cycle, retired_keys,
                   prev_blurs, cycle_smooth, worker>>
    /\ UNCHANGED <<loop_vars, settings_vars, model_vars, output_vars>>

(* MainWindow.toggle_blur, main_window.py lines 120-121 *)
toggle_blur(state) ==
    /\ auto_blur_enabled' = (state = 2)
    /\ UNCHANGED <<active_blurs, twin_blurs, frame_counter, smooth_factor, current_time,
                   results, current_frame_ids, drawn, blurred, last_cycle, retired_keys,
                   prev_blurs, cycle_smooth, worker>>
    /\ UNCHANGED <<loop_vars, settings_vars, model_vars, output_vars>>

(* MainWindow.toggle_preview, main_window.py lines 123-124 *)
toggle_preview(state) ==
    /\ show_output' = (state = 2)
    /\ UNCHANGED <<active_blurs, twin_blurs, frame_counter, auto_blur_enabled, smooth_factor,
                   current_time, results, current_frame_ids, drawn, blurred, last_cycle,
                   retired_keys, prev_blurs, cycle_smooth, running, worker, cam, cap>>
    /\ UNCHANGED <<settings_vars, model_vars, output_vars>>

(* Variant: reloading the settings also empties the track store *)
update_settingsOnResets(customs, sizes) ==
    /\ \E sf \in SmoothChoices, custom \in customs, size \in sizes :
          /\ smooth_factor' = sf
          /\ use_custom_model' = custom
          /\ model_size' = size
          /\ model' = IF custom # use_custom_model \/ size # model_size
                      THEN "None"
                      ELSE model
    /\ active_blurs' = EmptyStore
    /\ twin_blurs' = EmptyStore
    /\ UNCHANGED <<frame_counter, auto_blur_enabled, current_time,
                   results, current_frame_ids, drawn, blurred, last_cycle, retired_keys,
                   prev_blurs, cycle_smooth, worker, model_type, model_at_call>>
    /\ UNCHANGED <<loop_vars, output_vars>>

(* VideoWorker.update_settings between two passes of the loop, lines 47-67,
   after the settings dialog saved one of customs, one of sizes and a
   smoothing factor: the fields are re-read, and self.model is set to None
   when the mode or the size is not the one in use. *)
update_settingsOn(customs, sizes) ==
    /\ \E sf \in SmoothChoices, custom \in customs, size \in sizes :
          /\ smooth_factor' = sf
          /\ use_custom_model' = custom
          /\ model_size' = size
          /\ model' = IF custom # use_custom_model \/ size # model_size
                      THEN "None"
                      ELSE model
    /\ UNCHANGED <<active_blurs, twin_blurs, frame_counter, auto_blur_enabled, current_time,
                   results, current_frame_ids, drawn, blurred, last_cycle, retired_keys,
                   prev_blurs, cycle_smooth, worker, model_type, model_at_call>>
    /\ UNCHANGED <<loop_vars, output_vars>>

(* The dialog accepted with only the smoothing slider moved *)
update_settings ==
    update_settingsOn({use_custom_model}, {model_size})

(* VideoWorker.stop, lines 395-396 (MainWindow.closeEvent calls it) *)
stop ==
    /\ running' = FALSE
    /\ UNCHANGED <<active_blurs, twin_blurs, frame_counter, auto_blur_enabled, smooth_factor,
                   current_time, results, current_frame_ids, drawn, blurred, last_cycle,
                   retired_keys, prev_blurs, cycle_smooth, show_output, worker, cam, cap>>
    /\ UNCHANGED <<settings_vars, model_vars, output_vars>>

(* The process ends after the window was closed: closeEvent calls stop and
   accepts the event without waiting for the thread (main_window.py
   146-148), app.exec() returns and run.py 66-71 leave through sys.exit.
   A thread that is still in run ends where it is; lines 387-393 are not
   executed. *)
ProcessExit ==
    /\ ~running
    /\ worker \in {"looping", "in_pass"}
    /\ worker' = "killed"
    /\ UNCHANGED <<active_blurs, twin_blurs, frame_counter, auto_blur_enabled, smooth_factor,
                   current_time, results, current_frame_ids, drawn, blurred, last_cycle,
                   retired_keys, prev_blurs, cycle_smooth>>
    /\ UNCHANGED <<loop_vars, settings_vars, model_vars, output_vars>>

(* The track store under every batch of Batches, with the window left open
   and the camera delivering frames *)
Next ==
    \/ DetectCycle
    \/ DetectAbort
    \/ SkipCycle
    \/ PlainCycle
    \/ \E state \in {0, 2} : toggle_blur(state)
    \/ update_settings

Spec == Init /\ [][Next]_vars

(* The life of the thread: the same passes under the few batches of
   LoopBatches, with every handler of the window and every way out of the
   loop, with and without a virtual camera *)
LoopBatches ==
    { <<>>,
      <<Det(BoxA, NoTrackId, TRUE, "BLURRED")>>,
      <<Det(BoxA, 1, TRUE, "id card")>>,
      <<Det(BoxB, 1, TRUE, "credit card")>> }

LoopInit == InitWith({"open", "none"}, {FALSE}, {"s"})

LoopDetectCycle == DetectCycleOn(LoopBatches)

LoopNext ==
    \/ BeginPass
    \/ LoopDetectCycle
    \/ DetectAbort
    \/ SkipCycle
    \/ OutputAbort
    \/ PlainCycle
    \/ ReadFailure
    \/ LoopExit
    \/ \E state \in {0, 2} : toggle_blur(state)
    \/ \E state \in {0, 2} : toggle_preview(state)
    \/ update_settings
    \/ stop
    \/ ProcessExit

LoopSpec == LoopInit /\ [][LoopNext]_vars

(* The detector and its reloading: every mode and size of ModelSizes that
   the settings dialog can save, under two batches *)
ReloadBatches ==
    { <<>>,
      <<Det(BoxA, 1, TRUE, "id card")>> }

ReloadInit == InitWith({"open"}, BOOLEAN, ModelSizes)

ReloadDetectCycle == DetectCycleOn(ReloadBatches)

update_settingsAny == update_settingsOn(BOOLEAN, ModelSizes)

ReloadNext ==
    \/ ReloadDetectCycle
    \/ DetectAbort
    \/ TrackOnNone
    \/ TrackRaced
    \/ LoadAbort
    \/ SkipCycle
    \/ OutputAbort
    \/ PlainCycle
    \/ \E state \in {0, 2} : toggle_blur(state)
    \/ update_settingsAny

ReloadSpec == ReloadInit /\ [][ReloadNext]_vars

---------------------------------------------------------------------------
(* Vocabulary of the properties *)

(* now - last_seen <= persistenceDuration *)
WithinPersistence(now, last_seen) ==
    RLe(Norm(now - last_seen, TicksPerSecond), PersistenceDuration)
AtPersistenceLimit(now, last_seen) ==
    Norm(now - last_seen, TicksPerSecond) = PersistenceDuration

(* The detections of a batch that pass the class filter, by position (1-based) *)
Blurred(batch) == {i \in 1..Len(batch) : batch[i].should_blur}
Anonymous(batch) == {i \in Blurred(batch) : batch[i].track_id = -1}
Identified(batch) == {i \in Blurred(batch) : batch[i].track_id # -1}

(* The keys under which detections of the batch are filed: the track id, or
   -1000 - (0-based position) for a detection without one *)
PositionKey(i) == -1000 - (i - 1)
FiledKeys(batch) ==
    {batch[i].track_id : i \in Identified(batch)} \cup
    {PositionKey(i) : i \in Anonymous(batch)}

IsReal(k) == k >= 0
IsSynthetic(k) == k < 0

---------------------------------------------------------------------------
(* C1: expiry of real-id tracks.  In every completed auto-blur cycle with
   timestamp now, detection-bearing or skip, a track with a non-negative key
   that no detection of the cycle is filed under, last seen at t0, is still
   in the store after the prune step, with lastSeen = t0, when
   now - t0 <= persistenceDuration, and is absent when
   now - t0 > persistenceDuration. *)
C1_RealIdExpiry ==
    last_cycle \in {"detect", "skip"} =>
        \A k \in DOMAIN prev_blurs :
            (IsReal(k) /\ ~(last_cycle = "detect" /\ k \in FiledKeys(results)))
            => IF WithinPersistence(current_time, prev_blurs[k].last_seen)
               THEN /\ k \in DOMAIN active_blurs
                    /\ active_blurs[k].last_seen = prev_blurs[k].last_seen
               ELSE k \notin DOMAIN active_blurs

(* A completed cycle after which track 1 is kept at exactly
   now - lastSeen = persistenceDuration while track 2 has expired. *)
C1_Witness ==
    /\ last_cycle \in {"detect", "skip"}
    /\ 2 \in DOMAIN prev_blurs
    /\ 2 \notin DOMAIN active_blurs
    /\ 1 \in DOMAIN prev_blurs
    /\ ~(last_cycle = "detect" /\ 1 \in FiledKeys(results))
    /\ 1 \in DOMAIN active_blurs
    /\ AtPersistenceLimit(current_time, active_blurs[1].last_seen)

(* C2: every track that is rendered (redacted and outlined) satisfies
   now - lastSeen <= persistenceDuration for the timestamp of the cycle that
   rendered it, and a completed auto-blur cycle renders exactly the tracks
   in the store; this in every reachable state, whatever detection, skip,
   aborted and auto-blur-off cycles came before. *)
C2_RenderedTracksFresh ==
    /\ \A k \in DOMAIN drawn :
          /\ k \in DOMAIN active_blurs
          /\ WithinPersistence(current_time, active_blurs[k].last_seen)
    /\ last_cycle \in {"detect", "skip"} => DOMAIN drawn = DOMAIN active_blurs

(* A detection cycle that renders a track after a period with auto-blur off
   (more time has passed than frame_counter cycles can take). *)
C2_Witness ==
    /\ last_cycle = "detect"
    /\ DOMAIN drawn # {}
    /\ current_time > MaxDt * frame_counter

(* C3: ephemeral immediacy.  A synthetic-key track that no detection of a
   detection-bearing cycle is filed under is absent from the store after
   that cycle's prune step, whatever its age; every synthetic-key track in
   the store after the prune step was written in this cycle. *)
C3_EphemeralImmediacy ==
    last_cycle = "detect" =>
        /\ \A k \in DOMAIN prev_blurs :
              (IsSynthetic(k) /\ k \notin FiledKeys(results))
              => k \notin DOMAIN active_blurs
        /\ \A k \in DOMAIN active_blurs :
              IsSynthetic(k) => active_blurs[k].last_seen = current_time

(* A detection cycle found track -1001, still within persistenceDuration,
   filed no detection under its key and deleted it, while -1000 was
   re-detected and kept. *)
C3_Witness ==
    /\ last_cycle = "detect"
    /\ -1001 \in DOMAIN prev_blurs
    /\ WithinPersistence(current_time, prev_blurs[-1001].last_seen)
    /\ -1001 \notin FiledKeys(results)
    /\ -1001 \notin DOMAIN active_blurs
    /\ -1000 \in DOMAIN active_blurs

---------------------------------------------------------------------------
(* The association the specification describes for detections without an
   external id: intersection over union against the tracks not yet claimed
   in this cycle, the best one taken if it exceeds iouMatchThreshold. *)

IouMatchThreshold == <<3, 10>>

RMin(a, b) == IF RLt(a, b) THEN a ELSE b
Area(b) == RMul(RSub(b[3], b[1]), RSub(b[4], b[2]))
IoU(a, b) ==
    LET iw == RSub(RMin(a[3], b[3]), RMax(a[1], b[1]))
        ih == RSub(RMin(a[4], b[4]), RMax(a[2], b[2]))
        inter == RMul(iw, ih)
    IN  IF RLe(iw, R(0)) \/ RLe(ih, R(0))
        THEN R(0)
        ELSE RDiv(inter, RSub(RAdd(Area(a), Area(b)), inter))

(* The tracks of pool with the highest IoU against box, if above the threshold *)
BestMatches(store, pool, box) ==
    {k \in pool :
        /\ RLt(IouMatchThreshold, IoU(store[k].box, box))
        /\ \A j \in pool : RLe(IoU(store[j].box, box), IoU(store[k].box, box))}

(* The tracks claimed by the first n detections of the batch, greedily *)
RECURSIVE Claimed(_, _, _)
Claimed(store, batch, n) ==
    IF n = 0
    THEN {}
    ELSE LET c == Claimed(store, batch, n - 1)
             best == BestMatches(store, DOMAIN store \ c, batch[n].box)
         IN  IF n \in Anonymous(batch) /\ best # {}
             THEN c \cup {CHOOSE k \in best : TRUE}
             ELSE c

MatchOf(store, batch, i) ==
    BestMatches(store, DOMAIN store \ Claimed(store, batch, i - 1), batch[i].box)

OnlySynthetic(store) == \A k \in DOMAIN store : IsSynthetic(k)
SyntheticKeys(store) == {k \in DOMAIN store : IsSynthetic(k)}

---------------------------------------------------------------------------
(* C4, as claimed: a synthetic key is never allocated twice.  Every
   synthetic key that a cycle adds to the store is <= -1000 and was never in
   the store before (it is not the key of a track that was deleted). *)
C4_Original ==
    last_cycle = "detect" =>
        \A k \in DOMAIN active_blurs \ DOMAIN prev_blurs :
            IsSynthetic(k) => (k <= -1000 /\ k \notin retired_keys)

(* C4, amended: synthetic keys are <= -1000, disjoint from the external ids
   (>= 0), and are allocated by position: after a detection-bearing cycle
   the synthetic keys of the store are exactly -1000 - i for the 0-based
   positions i of the batch's detections without id that passed the class
   filter.  (So a key is allocated again whenever a later batch has a
   detection at the same position.) *)
C4_KeysByPosition ==
    /\ \A k \in DOMAIN active_blurs \cup retired_keys : IsReal(k) \/ k <= -1000
    /\ last_cycle = "detect" =>
          SyntheticKeys(active_blurs) = {PositionKey(i) : i \in Anonymous(results)}

(* A synthetic key whose track was deleted is in the store again. *)
C4_Witness ==
    /\ last_cycle = "detect"
    /\ \E k \in retired_keys : IsSynthetic(k) /\ k \in DOMAIN active_blurs

(* C5, as claimed (stated for a store that holds synthetic tracks only): in
   a detection-bearing cycle each detection without id, taken in input
   order, is matched to the not-yet-claimed track with the highest IoU if
   that IoU exceeds 0.3 - that track is then in the store, seen now, with
   the detection's box or its blend with the old box - and otherwise starts
   a new track: a key that was not in the store holds the detection's box. *)
C5_Original ==
    (last_cycle = "detect" /\ OnlySynthetic(prev_blurs)) =>
        \A i \in Anonymous(results) :
            LET best == MatchOf(prev_blurs, results, i)
                k == CHOOSE k \in best : TRUE
            IN  IF best # {}
                THEN /\ k \in DOMAIN active_blurs
                     /\ active_blurs[k].last_seen = current_time
                     /\ \E a \in {R(0), cycle_smooth[i]} :
                           active_blurs[k].box =
                               SmoothBox(prev_blurs[k].box, results[i].box, a)
                ELSE \E n \in DOMAIN active_blurs \ DOMAIN prev_blurs :
                        active_blurs[n].box = results[i].box

(* C5, amended: a detection without id is not matched by geometry.  The
   detection at 0-based position i of the batch is filed under key
   -1000 - i as a new track (box = detection box, velocity 0, label and
   lastSeen of this cycle), replacing whatever track held that key; the key
   depends on the position in the batch only. *)
C5_FiledByPosition ==
    last_cycle = "detect" =>
        \A i \in Anonymous(results) :
            /\ PositionKey(i) \in DOMAIN active_blurs
            /\ active_blurs[PositionKey(i)] =
                   [box |-> results[i].box, velocity |-> Zero4,
                    label |-> results[i].label, last_seen |-> current_time]

(* The track under -1000 was at BoxA; the batch <<BoxFar, BoxA>> puts BoxFar
   under -1000 and BoxA under -1001. *)
C5_Witness ==
    /\ last_cycle = "detect"
    /\ -1000 \in DOMAIN prev_blurs
    /\ prev_blurs[-1000].box = BoxA
    /\ Anonymous(results) = {1, 2}
    /\ results[1].box = BoxFar
    /\ results[2].box = BoxA
    /\ active_blurs[-1000].box = BoxFar
    /\ active_blurs[-1001].box = BoxA

(* x strictly between a and b *)
StrictlyBetween(x, a, b) == (RLt(a, x) /\ RLt(x, b)) \/ (RLt(b, x) /\ RLt(x, a))

(* C6, as claimed: when a detection without id overlaps a synthetic track of
   the previous detection-bearing cycle with IoU > 0.3, the store afterwards
   holds exactly one track overlapping it, under the same key, and its box
   is old*effectiveSmooth + new*(1 - effectiveSmooth): for smoothFactor > 0
   strictly between old and new on every coordinate that changed. *)
C6_Original ==
    last_cycle = "detect" =>
        \A k \in SyntheticKeys(prev_blurs) : \A i \in Anonymous(results) :
            RLt(IouMatchThreshold, IoU(prev_blurs[k].box, results[i].box)) =>
                LET old == prev_blurs[k].box
                    new == results[i].box
                    a == AdaptiveSmooth(cycle_smooth[i], Speed(Vec4Sub(new, old)))
                IN  /\ k \in DOMAIN active_blurs
                    /\ Cardinality({j \in DOMAIN active_blurs :
                          RLt(IouMatchThreshold, IoU(active_blurs[j].box, new))}) = 1
                    /\ active_blurs[k].box = SmoothBox(old, new, a)
                    /\ \A c \in 1..4 :
                          (RLt(R(0), cycle_smooth[i]) /\ old[c] # new[c]) =>
                              StrictlyBetween(active_blurs[k].box[c], old[c], new[c])

(* C6, amended: when a detection without id arrives at 0-based position i
   of the batch and the store holds the synthetic track -1000 - i, the store
   afterwards holds exactly one synthetic track per such detection, this one
   under the same key -1000 - i, and its box is the raw detection box with
   velocity 0: no smoothing is applied, whatever the IoU and smoothFactor. *)
C6_ReplacedNotSmoothed ==
    last_cycle = "detect" =>
        \A i \in Anonymous(results) :
            PositionKey(i) \in DOMAIN prev_blurs =>
                /\ PositionKey(i) \in DOMAIN active_blurs
                /\ active_blurs[PositionKey(i)].box = results[i].box
                /\ active_blurs[PositionKey(i)].velocity = Zero4
                /\ Cardinality(SyntheticKeys(active_blurs)) =
                       Cardinality(Anonymous(results))

(* The scenario of the specification: BoxA under -1000, then BoxB without id
   (IoU 9/11) with smoothFactor 1/2; the store holds BoxB itself. *)
C6_Witness ==
    /\ last_cycle = "detect"
    /\ cycle_smooth = << <<1, 2>> >>
    /\ DOMAIN prev_blurs = {-1000}
    /\ prev_blurs[-1000].box = BoxA
    /\ Anonymous(results) = {1}
    /\ results[1].box = BoxB
    /\ RLt(IouMatchThreshold, IoU(BoxA, BoxB))
    /\ DOMAIN active_blurs = {-1000}
    /\ active_blurs[-1000].box = BoxB

(* C7, as claimed: within one detection-bearing cycle no two detections of
   the batch are filed under the same track key. *)
C7_Original ==
    last_cycle = "detect" =>
        \A i, j \in Blurred(results) :
            i # j => KeyOf(results[i], i - 1) # KeyOf(results[j], j - 1)

(* C8: skip-cycle prediction.  After a skip cycle every real-id track of the
   store has box = old box + old velocity on each coordinate, with velocity,
   label and lastSeen as before the cycle; every synthetic-key track is
   exactly as before the cycle. *)
C8_SkipPrediction ==
    last_cycle = "skip" =>
        \A k \in DOMAIN active_blurs :
            /\ k \in DOMAIN prev_blurs
            /\ IF IsReal(k)
               THEN /\ \A c \in 1..4 :
                          active_blurs[k].box[c] =
                              RAdd(prev_blurs[k].box[c], prev_blurs[k].velocity[c])
                    /\ active_blurs[k].velocity = prev_blurs[k].velocity
                    /\ active_blurs[k].label = prev_blurs[k].label
                    /\ active_blurs[k].last_seen = prev_blurs[k].last_seen
               ELSE active_blurs[k] = prev_blurs[k]

(* A skip cycle has moved a real-id track that has a velocity. *)
C8_Witness ==
    /\ last_cycle = "skip"
    /\ \E k \in DOMAIN active_blurs :
          /\ IsReal(k)
          /\ active_blurs[k].velocity # Zero4
          /\ active_blurs[k].box # prev_blurs[k].box

ValidBox(b) == RLt(b[1], b[3]) /\ RLt(b[2], b[4])

(* C9, as claimed: every track's box has x2 > x1 and y2 > y1, and after a
   detection-bearing cycle no track of the store was written in this cycle
   under the key of a detection whose box is degenerate or inverted. *)
C9_Original ==
    /\ \A k \in DOMAIN active_blurs : ValidBox(active_blurs[k].box)
    /\ last_cycle = "detect" =>
          \A i \in Blurred(results) :
              ~ValidBox(results[i].box) =>
                  \A k \in DOMAIN active_blurs :
                      (k = KeyOf(results[i], i - 1)) =>
                          active_blurs[k].last_seen # current_time

(* The detections for real id k in the latest batch *)
DetectionsFor(k) == {i \in Identified(results) : results[i].track_id = k}
TargetOf(k) == results[CHOOSE i \in DetectionsFor(k) : TRUE].box

(* The position of the detection for k in the batch (when there is one) *)
DetectionOf(k) == CHOOSE i \in DetectionsFor(k) : TRUE

(* self.smooth_factor as the detection at position i read it *)
SmoothRead(i) == cycle_smooth[i]

(* Track k was in the store before the latest completed cycle and is in it
   now, and the latest batch has exactly one detection for it *)
Followed(k) ==
    /\ IsReal(k)
    /\ k \in DOMAIN prev_blurs
    /\ k \in DOMAIN active_blurs
    /\ Cardinality(DetectionsFor(k)) = 1

NoFastMotion(old, new) == RLe(Speed(Vec4Sub(new, old)), R(FastMotionThreshold))

(* x is at least as close to t as o is, and not on the other side of t *)
CloserNotBeyond(x, o, t) ==
    /\ RLe(RAbs(RSub(x, t)), RAbs(RSub(o, t)))
    /\ RMul(RSub(x, t), RSub(o, t))[1] >= 0

(* C10, as claimed: for a real-id track whose detection box is the constant
   target T, with no fast-motion trigger, each coordinate of the box after
   each update - the smoothing update of a detection-bearing cycle, the
   prediction of a skip cycle - is at least as close to T's coordinate as
   before the update and not beyond it. *)
C10_Original ==
    \A k \in DOMAIN active_blurs :
        /\ (last_cycle = "detect" /\ Followed(k)
            /\ NoFastMotion(prev_blurs[k].box, TargetOf(k)))
           => \A c \in 1..4 :
                 CloserNotBeyond(active_blurs[k].box[c], prev_blurs[k].box[c],
                                 TargetOf(k)[c])
        /\ (last_cycle = "skip" /\ Followed(k))
           => \A c \in 1..4 :
                 CloserNotBeyond(active_blurs[k].box[c], prev_blurs[k].box[c],
                                 TargetOf(k)[c])

Centre(b, lo) == RDiv(RAdd(b[lo], b[lo + 2]), R(2))

(* C10, amended: in a detection-bearing cycle, for a real-id track with one
   detection T in the batch and no fast-motion trigger, the centre of the
   track's box on each axis becomes oldCentre*smoothFactor +
   TCentre*(1 - smoothFactor): at least as close to T's centre as before the
   update and not beyond it. *)
C10_CentreSmoothing ==
    last_cycle = "detect" =>
        \A k \in DOMAIN active_blurs :
            (Followed(k) /\ NoFastMotion(prev_blurs[k].box, TargetOf(k))) =>
                \A lo \in 1..2 :
                    LET old == Centre(prev_blurs[k].box, lo)
                        tgt == Centre(TargetOf(k), lo)
                        new == Centre(active_blurs[k].box, lo)
                    IN  /\ new = RAdd(RMul(old, SmoothRead(DetectionOf(k))),
                                      RMul(tgt, RSub(R(1), SmoothRead(DetectionOf(k)))))
                        /\ CloserNotBeyond(new, old, tgt)

(* With smoothFactor 1/2, a track away from its target has moved its centre
   strictly closer to the target's without reaching it. *)
C10_Witness ==
    /\ last_cycle = "detect"
    /\ \E k \in DOMAIN active_blurs :
          /\ Followed(k)
          /\ SmoothRead(DetectionOf(k)) = <<1, 2>>
          /\ NoFastMotion(prev_blurs[k].box, TargetOf(k))
          /\ Centre(prev_blurs[k].box, 1) # Centre(TargetOf(k), 1)
          /\ StrictlyBetween(Centre(active_blurs[k].box, 1),
                             Centre(prev_blurs[k].box, 1), Centre(TargetOf(k), 1))

---------------------------------------------------------------------------
(* Vocabulary of the matched update of a real-id track k that has exactly
   one detection in the latest batch *)

(* The width (lo = 1) or height (lo = 2) of a box *)
Extent(b, lo) == RSub(b[lo + 2], b[lo])

(* The smoothed box of the update of track k, before size stabilization *)
SmoothedBefore(k) ==
    LET old == prev_blurs[k].box
        new == TargetOf(k)
        a == AdaptiveSmooth(SmoothRead(DetectionOf(k)), Speed(Vec4Sub(new, old)))
    IN  SmoothBox(old, new, a)

(* |size of b - old size| / max(old size, 1) < sizeStabilityThreshold *)
SmallSizeChange(b, old, lo) ==
    RLt(RDiv(RAbs(RSub(Extent(b, lo), Extent(old, lo))),
             RMax(Extent(old, lo), R(1))),
        SizeStabilityThreshold)

(* C11: size stabilization.  On a matched update, on each axis
   independently: if the width (height) of the new box - the smoothed box,
   and all the more the detection's box - differs from the old track width
   (height) by less than 5% of max(old, 1), the resulting width (height) is
   the old one exactly and the box is centred on the smoothed centre. *)
C11_SizeStabilization ==
    last_cycle = "detect" =>
        \A k \in DOMAIN active_blurs :
            Followed(k) =>
                \A lo \in 1..2 :
                    LET old == prev_blurs[k].box
                        s == SmoothedBefore(k)
                        new == active_blurs[k].box
                    IN  (SmallSizeChange(s, old, lo) \/ SmallSizeChange(TargetOf(k), old, lo))
                        => /\ Extent(new, lo) = Extent(old, lo)
                           /\ Centre(new, lo) = Centre(s, lo)

(* A matched update whose smoothed width differs from the old width, by less
   than 5%, and whose centre has moved: the old width is restored. *)
C11_Witness ==
    /\ last_cycle = "detect"
    /\ \E k \in DOMAIN active_blurs :
          /\ Followed(k)
          /\ SmallSizeChange(SmoothedBefore(k), prev_blurs[k].box, 1)
          /\ Extent(SmoothedBefore(k), 1) # Extent(prev_blurs[k].box, 1)
          /\ Centre(active_blurs[k].box, 1) # Centre(prev_blurs[k].box, 1)
          /\ Extent(active_blurs[k].box, 1) = Extent(prev_blurs[k].box, 1)

---------------------------------------------------------------------------
(* A step that is a pass of the loop in which the detector call raised *)
DetectorFailed == last_cycle' = "abort" /\ current_time' # current_time

(* C12, as claimed: a pass whose detector call fails is a pass with an empty
   batch: it prunes the store as an empty batch does and renders the
   surviving tracks. *)
C12_Original ==
    [][DetectorFailed =>
          /\ active_blurs' = Prune(active_blurs, {}, current_time')
          /\ drawn' = Render(active_blurs')]_vars

(* C12, amended: a pass whose detector call fails is abandoned.  The store is
   left exactly as it was (not cleared, not updated, not pruned: expired and
   synthetic tracks stay too), frame_counter has advanced, and no region is
   redacted or drawn: the frame of that pass is dropped. *)
C12_FailedPassAbandoned ==
    [][DetectorFailed =>
          /\ active_blurs' = active_blurs
          /\ frame_counter' = frame_counter + 1
          /\ drawn' = EmptyStore]_vars

(* After a failed pass the store still holds a track older than
   persistenceDuration, and nothing was rendered. *)
C12_Witness ==
    /\ last_cycle = "abort"
    /\ drawn = EmptyStore
    /\ \E k \in DOMAIN active_blurs : Expired(current_time, active_blurs[k].last_seen)

---------------------------------------------------------------------------
(* The detection at position i of the latest batch was smoothed into an
   existing track, so line 268 read self.smooth_factor for it *)
ReadsSmooth(i) ==
    /\ i \in Identified(results)
    /\ \/ results[i].track_id \in DOMAIN prev_blurs
       \/ \E j \in Identified(results) :
             j < i /\ results[j].track_id = results[i].track_id

(* C13, as claimed: a pass completes with the settings it started with: every
   detection of one pass is smoothed with the same value of smooth_factor,
   whenever update_settings ran. *)
C13_Original ==
    last_cycle = "detect" =>
        \A i, j \in 1..Len(results) :
            (ReadsSmooth(i) /\ ReadsSmooth(j)) => SmoothRead(i) = SmoothRead(j)

---------------------------------------------------------------------------
(* A step that is a pass of the loop ended by the except clause *)
PassRaised ==
    /\ last_cycle' \in {"abort", "late_abort"}
    /\ current_time' # current_time

(* A step in which no pass ran: nothing a pass writes has changed *)
NoPass ==
    UNCHANGED <<active_blurs, frame_counter, current_time, results,
                current_frame_ids, drawn, blurred, last_cycle>>

(* C14: no condition inside a pass is fatal.  A pass that raised - in the
   detector call, or after the store was updated and pruned - leaves the
   thread in the loop, and the thread leaves the loop only when it finds
   the stop flag set or when the camera read fails (no pass runs then). *)
C14_ExceptionsNotFatal ==
    [][/\ PassRaised => worker' = "looping"
       /\ (worker # "finished" /\ worker' = "finished") => (~running \/ NoPass)]_vars

(* A pass has raised after the store was updated, and the thread is still
   in the loop with the stop flag clear. *)
C14_Witness ==
    /\ last_cycle = "late_abort"
    /\ frame_counter >= 3
    /\ active_blurs # EmptyStore
    /\ worker = "looping"
    /\ running

---------------------------------------------------------------------------
(* C17: the track store belongs to the loop.  A step in which no pass of the
   loop runs (the clock of the passes stands still: a handler of the window
   - toggle_blur, toggle_preview, update_settings, stop - or the thread
   leaving the loop) leaves active_blurs and frame_counter as they are; they
   change only in a step that is a pass. *)
C17_StoreOwnedByLoop ==
    [][/\ current_time' = current_time
          => UNCHANGED <<active_blurs, frame_counter>>
       /\ (active_blurs' # active_blurs \/ frame_counter' # frame_counter)
          => last_cycle' \in {"detect", "skip", "abort", "late_abort"}]_vars

(* With tracks in the store, and the thread still in the loop, the window
   has switched auto-blur off, switched the preview on and set the stop
   flag. *)
C17_Witness ==
    /\ active_blurs # EmptyStore
    /\ frame_counter > 0
    /\ worker = "looping"
    /\ ~auto_blur_enabled
    /\ show_output
    /\ ~running

---------------------------------------------------------------------------
(* A padded, clamped region of zero or negative area *)
EmptyRegion(r) == r[3] <= r[1] \/ r[4] <= r[2]

(* C15: redaction of an empty region is a silent no-op.  In every completed
   auto-blur pass (none was ended by an error), a track whose padded and
   clamped region has x2 <= x1 or y2 <= y1 leaves the output frame as it is,
   and every other track of the pass is redacted over its region. *)
C15_EmptyRegionNoOp ==
    last_cycle \in {"detect", "skip"} =>
        /\ DOMAIN drawn = DOMAIN active_blurs
        /\ \A k \in DOMAIN drawn :
              IF EmptyRegion(drawn[k])
              THEN k \notin DOMAIN blurred
              ELSE k \in DOMAIN blurred /\ blurred[k] = drawn[k]

(* A completed pass with one track of empty region, left alone, and another
   track that was redacted. *)
C15_Witness ==
    /\ last_cycle \in {"detect", "skip"}
    /\ \E k \in DOMAIN drawn : EmptyRegion(drawn[k]) /\ k \notin DOMAIN blurred
    /\ \E k \in DOMAIN drawn : ~EmptyRegion(drawn[k]) /\ k \in DOMAIN blurred

---------------------------------------------------------------------------
(* A batch in the opposite order *)
Backwards(batch) == [i \in 1..Len(batch) |-> batch[Len(batch) + 1 - i]]

(* C16: association determinism.  Two copies of the engine that start in
   the same state and are stepped with the same batches in the same order,
   the same timestamps and the same settings are in the same state after
   every step: the assignment of detections to keys and the resulting store
   are a function of the store and the inputs. *)
C16_AssociationDeterministic == twin_blurs = active_blurs

(* A detection pass whose batch, taken in the opposite order, would have
   left another store: the store is the outcome of the order given. *)
C16_Witness ==
    /\ last_cycle = "detect"
    /\ Len(results) = 2
    /\ LET start == [store |-> prev_blurs, ids |-> {}]
           inorder == ProcessBatch(start, results, 2, current_time, cycle_smooth)
           opposite == ProcessBatch(start, Backwards(results), 2, current_time,
                                    cycle_smooth)
       IN  /\ inorder.store # opposite.store
           /\ active_blurs = Prune(inorder.store, inorder.ids, current_time)
           /\ current_frame_ids = inorder.ids
    /\ twin_blurs = active_blurs

---------------------------------------------------------------------------
(* C18: a detection with an external id is filed under that id, with no
   geometric test.  For an id with one detection in the batch of a
   detection pass: the store holds the id afterwards, seen now, with the
   detection's label, whatever the overlap of the detection's box with the
   track's; when the id was not in the store, the track is new: box =
   detection box, velocity = [0,0,0,0]; and no synthetic key is created for
   the detection. *)
C18_FiledUnderExternalId ==
    last_cycle = "detect" =>
        \A i \in Identified(results) :
            LET k == results[i].track_id
            IN  DetectionsFor(k) = {i} =>
                  /\ k \in DOMAIN active_blurs
                  /\ active_blurs[k].last_seen = current_time
                  /\ active_blurs[k].label = results[i].label
                  /\ k \notin DOMAIN prev_blurs =>
                        active_blurs[k] =
                            [box |-> results[i].box, velocity |-> Zero4,
                             label |-> results[i].label,
                             last_seen |-> current_time]
                  /\ SyntheticKeys(active_blurs) = {}

(* One pass has created track 2 from its detection and has matched the
   detection for id 1 to track 1 although their boxes do not overlap. *)
C18_Witness ==
    /\ last_cycle = "detect"
    /\ \E i, j \in Identified(results) :
          /\ results[i].track_id = 2
          /\ 2 \notin DOMAIN prev_blurs
          /\ active_blurs[2].box = results[i].box
          /\ results[j].track_id = 1
          /\ 1 \in DOMAIN prev_blurs
          /\ IoU(prev_blurs[1].box, results[j].box) = R(0)
          /\ active_blurs[1].last_seen = current_time

---------------------------------------------------------------------------
(* speed: the mean of |newBox[i] - oldBox[i]| over the 4 coordinates *)
MeanAbsDiff(new, old) ==
    RDiv(RAdd(RAdd(RAbs(RSub(new[1], old[1])), RAbs(RSub(new[2], old[2]))),
              RAdd(RAbs(RSub(new[3], old[3])), RAbs(RSub(new[4], old[4])))),
         R(4))

(* effectiveSmooth *)
EffectiveSmooth(sf, speed) ==
    IF RLe(speed, R(20))
    THEN sf
    ELSE RMax(<<1, 10>>, RSub(sf, <<3, 10>>))

(* oldBox[i]*effectiveSmooth + newBox[i]*(1 - effectiveSmooth), for the
   update of track k by its detection *)
ExpectedSmoothed(k) ==
    LET old == prev_blurs[k].box
        new == TargetOf(k)
        eff == EffectiveSmooth(SmoothRead(DetectionOf(k)), MeanAbsDiff(new, old))
    IN  [i \in 1..4 |-> RAdd(RMul(old[i], eff), RMul(new[i], RSub(R(1), eff)))]

(* C19: adaptive smoothing.  On the matched update of a real-id track, the
   box before size stabilization is old*effectiveSmooth +
   new*(1 - effectiveSmooth) on each coordinate, with effectiveSmooth =
   smoothFactor when the mean of |new[i] - old[i]| is <= 20 and
   max(0.1, smoothFactor - 0.3) when it is > 20.  Seen in the stored box: on
   an axis that size stabilization leaves alone both coordinates are those
   values, and on a stabilized axis the centre is theirs. *)
C19_AdaptiveSmoothing ==
    last_cycle = "detect" =>
        \A k \in DOMAIN active_blurs :
            Followed(k) =>
                \A lo \in 1..2 :
                    LET s == ExpectedSmoothed(k)
                        new == active_blurs[k].box
                    IN  IF SmallSizeChange(s, prev_blurs[k].box, lo)
                        THEN Centre(new, lo) = Centre(s, lo)
                        ELSE new[lo] = s[lo] /\ new[lo + 2] = s[lo + 2]

(* A fast update (mean change above 20) with smoothFactor 0: the track moved
   by 9/10 of the way on x, effectiveSmooth being the minimum 1/10. *)
C19_Witness ==
    /\ last_cycle = "detect"
    /\ \E k \in DOMAIN active_blurs :
          /\ Followed(k)
          /\ SmoothRead(DetectionOf(k)) = R(0)
          /\ RLt(R(20), MeanAbsDiff(TargetOf(k), prev_blurs[k].box))
          /\ ~SmallSizeChange(ExpectedSmoothed(k), prev_blurs[k].box, 1)
          /\ active_blurs[k].box[1] =
                 RAdd(RMul(prev_blurs[k].box[1], <<1, 10>>),
                      RMul(TargetOf(k)[1], <<9, 10>>))
          /\ active_blurs[k].box[1] # TargetOf(k)[1]

---------------------------------------------------------------------------
(* C20: on a matched update of an existing real-id track the stored velocity
   is, coordinate by coordinate, half the old velocity plus half the raw
   velocity, the raw velocity being the detection's box minus the box the
   store held when the pass began (skip-cycle predictions included); the
   label becomes the detection's label and last_seen the timestamp of the
   pass. *)
C20_VelocityLabelLastSeen ==
    last_cycle = "detect" =>
        \A k \in DOMAIN active_blurs :
            Followed(k) =>
                /\ \A i \in 1..4 :
                      active_blurs[k].velocity[i] =
                          RAdd(RMul(<<1, 2>>, prev_blurs[k].velocity[i]),
                               RMul(<<1, 2>>,
                                    RSub(TargetOf(k)[i], prev_blurs[k].box[i])))
                /\ active_blurs[k].label = results[DetectionOf(k)].label
                /\ active_blurs[k].last_seen = current_time

(* Track 1 had reached BoxB with velocity 5 on x, a skip cycle moved it on to
   [115,100,215,200], and a detection at BoxA with another label updates it:
   the raw velocity is -15 against the predicted box and the stored one -5. *)
C20_Witness ==
    /\ last_cycle = "detect"
    /\ Followed(1)
    /\ prev_blurs[1].box = Box(115, 100, 215, 200)
    /\ prev_blurs[1].velocity[1] = R(5)
    /\ prev_blurs[1].last_seen < current_time
    /\ prev_blurs[1].label # active_blurs[1].label
    /\ TargetOf(1) = BoxA
    /\ active_blurs[1].velocity[1] = R(-5)
    /\ active_blurs[1].last_seen = current_time

---------------------------------------------------------------------------
(* A region lies inside [0, width] x [0, height] *)
InsideFrame(r) ==
    /\ 0 <= r[1] /\ r[1] <= r[3] /\ r[3] <= FrameWidth
    /\ 0 <= r[2] /\ r[2] <= r[4] /\ r[4] <= FrameHeight

(* The part of a box that lies in the frame (empty when x2 <= x1 or y2 <= y1) *)
FramePart(box) ==
    <<RMax(R(0), box[1]), RMax(R(0), box[2]),
      RMin(R(FrameWidth), box[3]), RMin(R(FrameHeight), box[4])>>
NonEmptyBox(b) == RLt(b[1], b[3]) /\ RLt(b[2], b[4])

(* Region r contains box b *)
Covers(r, b) ==
    /\ RLe(R(r[1]), b[1]) /\ RLe(R(r[2]), b[2])
    /\ RLe(b[3], R(r[3])) /\ RLe(b[4], R(r[4]))

(* C22, as claimed: in every completed auto-blur pass every region written
   to the output frame lies inside the frame, and a track whose box
   intersects the frame is redacted over a region that contains the
   intersection. *)
C22_Original ==
    last_cycle \in {"detect", "skip"} =>
        /\ \A k \in DOMAIN blurred : InsideFrame(blurred[k])
        /\ \A k \in DOMAIN active_blurs :
              NonEmptyBox(FramePart(active_blurs[k].box)) =>
                  /\ k \in DOMAIN blurred
                  /\ Covers(blurred[k], FramePart(active_blurs[k].box))

---------------------------------------------------------------------------
(* Steps that are passes of the loop, by the path the pass took *)
PassStep == current_time' # current_time
AutoBlurPass == PassStep /\ auto_blur_enabled
DetectorReached == PassStep /\ last_cycle' \in {"detect", "abort"}
Predicted == PassStep /\ last_cycle' \in {"skip", "late_abort"}
GateRaised == PassStep /\ last_cycle' = "load_abort"

(* C21, as claimed: every auto-blur pass is counted and is a detector pass
   when the counter is a multiple of detection_interval and a prediction
   pass otherwise, with detection_interval - 1 prediction passes between two
   detector calls. *)
C21_Original ==
    [][/\ AutoBlurPass =>
             /\ frame_counter' = frame_counter + 1
             /\ IF RunDetection(frame_counter') THEN DetectorReached ELSE Predicted
       /\ DetectorReached => skips_since_call = DetectionInterval - 1]_vars

(* C21: the cadence of the passes that get past the model gate.  A pass
   with auto-blur on either is ended by load_model before it is counted
   (it is neither a detector pass nor a prediction pass, and the counter
   and the cadence stay as they were), or it is counted once, reaches the
   detector call exactly when the counter is a multiple of
   detection_interval and is a prediction pass otherwise.  No other step
   changes the counter, and every pass that reaches the detector call comes
   after exactly detection_interval - 1 prediction passes, also after
   passes ended by an exception and after auto-blur was off. *)
C21_Cadence ==
    [][/\ AutoBlurPass =>
             \/ /\ GateRaised
                /\ UNCHANGED <<frame_counter, skips_since_call>>
             \/ /\ frame_counter' = frame_counter + 1
                /\ DetectorReached <=> RunDetection(frame_counter')
                /\ Predicted <=> ~RunDetection(frame_counter')
       /\ ~AutoBlurPass => UNCHANGED <<frame_counter, skips_since_call>>
       /\ DetectorReached => skips_since_call = DetectionInterval - 1]_vars

(* A prediction pass has followed a pass whose detector call raised (the
   model was None); it is the one prediction pass since that call, and the
   next pass with auto-blur on will reach the detector. *)
C21_Witness ==
    /\ last_cycle = "skip"
    /\ model_at_call = "None"
    /\ skips_since_call = DetectionInterval - 1
    /\ frame_counter >= 3
    /\ RunDetection(frame_counter + 1)
    /\ auto_blur_enabled

---------------------------------------------------------------------------
(* Rows and columns of a region *)
Rows(r) == r[4] - r[2]
Columns(r) == r[3] - r[1]

(* C23, as claimed: for every region that apply_blur_effect overwrites, the
   kernel size of the gaussian style is odd and at most the smaller of the
   region's height and width. *)
C23_Original ==
    \A k \in DOMAIN blurred :
        LET ksize == GaussianKsize(Rows(blurred[k]), Columns(blurred[k]))
        IN  /\ ksize % 2 = 1
            /\ ksize <= Min(Rows(blurred[k]), Columns(blurred[k]))

---------------------------------------------------------------------------
(* The step is a pass that reached the prune step of lines 331-341 *)
PruneReached == PassStep /\ last_cycle' \in {"detect", "skip", "late_abort"}

(* C24: track entries are deleted by the prune step only.  Whenever a key of
   the store is gone after a step, the step is a pass that reached its prune
   step and the key met one of the two prune conditions there: its track
   was last seen more than persistence_duration before the pass, or the key
   is below -900 and not in current_frame_ids.  No handler of the window, no
   settings reload, no abandoned pass and no update, prediction or render
   removes a key. *)
C24_OnlyPruneDeletes ==
    [][\A k \in DOMAIN active_blurs \ DOMAIN active_blurs' :
           /\ PruneReached
           /\ \/ ~WithinPersistence(current_time', active_blurs[k].last_seen)
              \/ (k < -900 /\ k \notin current_frame_ids')]_vars

(* The prune step has deleted a real-id track and a synthetic one, and the
   store holds a track again. *)
C24_Witness ==
    /\ \E k \in retired_keys : k >= 0 /\ k \notin DOMAIN active_blurs
    /\ \E k \in retired_keys : k < 0
    /\ active_blurs # EmptyStore

---------------------------------------------------------------------------
(* The devices of run have been given back: lines 387-393 *)
DevicesReleased == cap = "released" /\ cam # "open"

(* C25, as claimed: the loop is stopped between passes only.  Once stop has
   cleared the flag no pass is begun, the pass in flight is completed, and
   the thread is on its way to the cleanup or has returned from run with
   the camera and the virtual camera released. *)
C25_Original ==
    [][/\ ~running => ~(worker = "looping" /\ PassStep)
       /\ ~running => ~(worker = "looping" /\ worker' = "in_pass")
       /\ ~running' =>
             \/ worker' \in {"looping", "in_pass"}
             \/ worker' = "finished" /\ DevicesReleased']_vars

---------------------------------------------------------------------------
(* C26, as claimed: a pass with auto-blur on that finds self.model None
   (update_settings forced a reload) leaves the gate of lines 189-190 with a
   model: load_model does not raise and self.model is not None after it. *)
C26_Original ==
    [][(AutoBlurPass /\ model = "None") =>
           /\ ~GateRaised
           /\ ModelGate.model # "None"]_vars

---------------------------------------------------------------------------
(* C27, as claimed: self.model cannot become None between the gate of lines
   189-190 and the detector call of line 207 of the same pass: a pass that
   left the gate with a model and reached the call did not dereference
   None, however update_settings is interleaved with it. *)
C27_Original ==
    [][(DetectorReached /\ ~ModelGate.raised /\ ModelGate.model # "None") =>
           model_at_call' # "None"]_vars

---------------------------------------------------------------------------
(* C28: what reaches the virtual camera from a pass with auto-blur on.  A
   frame that such a pass handed to cam.send was sent after the prune step
   and after the render loop: every track that the store holds after the
   prune step and whose region is not empty is overwritten in the frame
   over its padded region, and nothing else is.  A pass that the detector
   call ended has sent no frame.  A completed pass has sent its frame
   whenever there is a virtual camera. *)
C28_SentAfterRedaction ==
    /\ last_cycle \in {"detect", "skip", "late_abort"} =>
          (sent.emitted =>
              /\ \A k \in DOMAIN active_blurs :
                    EmptyRegion(Region(active_blurs[k].box))
                        \/ (/\ k \in DOMAIN sent.redacted
                            /\ sent.redacted[k] = Region(active_blurs[k].box))
              /\ DOMAIN sent.redacted \subseteq DOMAIN active_blurs)
    /\ last_cycle \in {"detect", "skip"} =>
          IF cam = "none"
          THEN ~sent.emitted
          ELSE sent.emitted /\ sent.redacted = blurred
    /\ last_cycle = "abort" => ~sent.emitted

(* A detection pass has sent a frame in which the track of the store is
   redacted. *)
C28_Witness ==
    /\ last_cycle = "detect"
    /\ sent.emitted
    /\ active_blurs # EmptyStore
    /\ DOMAIN sent.redacted = DOMAIN active_blurs
    /\ frame_counter >= 4

---------------------------------------------------------------------------
(* C29: every key of the store is a real id (>= 0) or a synthetic id
   (<= -1000), none lies strictly between -1000 and 0, and so the test of
   the prediction (tid >= 0) and the test of the immediate pruning
   (tid < -900) hold for exactly one of the two kinds: every stored track
   passes exactly one of them.  The detector's ids are non-negative. *)
C29_KeysRealOrSynthetic ==
    \A k \in DOMAIN active_blurs :
        /\ k >= 0 \/ k <= -1000
        /\ (k >= 0) # (k < -900)
        /\ IsPredicted(k) <=> k >= 0
        /\ IsTemporary(k) <=> k <= -1000

(* The store holds a real-id track and the synthetic track of the second
   position of a batch at once. *)
C29_Witness ==
    /\ \E k \in DOMAIN active_blurs : k >= 0
    /\ -1001 \in DOMAIN active_blurs

---------------------------------------------------------------------------
(* C30: on a skip cycle a synthetic-key track is neither removed for being
   unmatched nor modified.  After a completed skip pass, every synthetic key
   the pass found in the store is, when now - last_seen does not exceed the
   persistence duration, still in the store with the same box, velocity,
   label and last_seen, and the region drawn for it is the one rendered from
   that unchanged box; it is gone exactly when now - last_seen exceeds the
   persistence duration. *)
C30_SyntheticUntouchedOnSkip ==
    last_cycle = "skip" =>
        \A k \in DOMAIN prev_blurs :
            k <= -1000 =>
                IF Expired(current_time, prev_blurs[k].last_seen)
                THEN k \notin DOMAIN active_blurs
                ELSE /\ k \in DOMAIN active_blurs
                     /\ active_blurs[k] = prev_blurs[k]
                     /\ k \in DOMAIN drawn
                     /\ drawn[k] = Region(prev_blurs[k].box)

(* A skip pass found a synthetic-key track whose last_seen lies before the
   pass and left it in the store. *)
C30_Witness ==
    /\ last_cycle = "skip"
    /\ \E k \in DOMAIN prev_blurs \cap DOMAIN active_blurs :
          /\ k <= -1000
          /\ active_blurs[k].last_seen < current_time
          /\ active_blurs[k] = prev_blurs[k]

====
